---------------------------- MODULE Spec2Model ----------------------------
(***************************************************************************)
(* Nearest-neighbour classification (sklearn/neighbors/classification.py): *)
(* KNeighborsClassifier.predict_proba / predict and                        *)
(* RadiusNeighborsClassifier.predict as a state machine.                   *)
(*                                                                         *)
(* Floating-point values are modelled as exact rationals <<num, den>> in   *)
(* lowest terms with den > 0, plus the IEEE specials NaN = <<0,0>>,        *)
(* +inf = <<1,0>> and -inf = <<-1,0>>; rounding is not modelled.  Array    *)
(* positions are the 0-based integers of the code; TLA+ sequences are      *)
(* 1-based, so a[j] of the code is a[j + 1] here.                          *)
(***************************************************************************)
EXTENDS Integers, Sequences, FiniteSets

VARIABLES clf,            \* which estimator was constructed: "knn" | "radius"
          y_,             \* self._y : class index of every training sample
          classes_,       \* self._classes : sorted distinct training labels
          n_neighbors,    \* self.n_neighbors (0 for the radius estimator)
          weights_cfg,    \* self.weights
          class_prior,    \* self.class_prior
          outlier_label,  \* self.outlier_label : <<>> is None, <<L>> is L
          pc,             \* position of the running call
          X,              \* query batch of the running call
          neigh_dist,     \* neigh_dist
          neigh_ind,      \* neigh_ind
          pred_labels,    \* pred_indices (k-NN) / pred_labels (radius)
          outliers,       \* row indices collected at line 335
          weights,        \* weights after the `is None` replacement
          votes,          \* probabilities after the aggregation loop
          adjusted,       \* probabilities after the class-count/prior step
          probabilities,  \* probabilities after the row normalisation
          preds           \* predicted labels

vars == <<clf, y_, classes_, n_neighbors, weights_cfg, class_prior,
          outlier_label, pc, X, neigh_dist, neigh_ind, pred_labels, outliers,
          weights, votes, adjusted, probabilities, preds>>

-----------------------------------------------------------------------------
(* Bounds of the model *)

\* largest number of training samples drawn for a fit
MaxTrain == 3
\* training labels are drawn from 0..MaxLabel
MaxLabel == 1
\* largest number of query rows in one batch
MaxRows == 2

\* radius=1.0, the constructor default and the value of the docstring examples
DefaultRadius == 1

\* y = [0, 0, 1, 1], the training labels of the docstring examples
DocY == <<0, 0, 1, 1>>

-----------------------------------------------------------------------------
(* Floating-point arithmetic of numpy, exact on rationals *)

Abs(i) == IF i < 0 THEN -i ELSE i

Sign(i) == IF i < 0 THEN -1 ELSE IF i > 0 THEN 1 ELSE 0

RECURSIVE GCD(_, _)
GCD(a, b) == IF b = 0 THEN a ELSE GCD(b, a % b)

\* the rational n/d (d > 0) in lowest terms
Rat(n, d) == LET g == GCD(Abs(n), d) IN <<n \div g, d \div g>>

FInt(i) == <<i, 1>>
Zero == <<0, 1>>
One == <<1, 1>>
NaN == <<0, 0>>

IsNaN(a) == a = NaN
IsFinite(a) == a[2] > 0

\* a + b
FAdd(a, b) ==
    IF IsFinite(a) /\ IsFinite(b) THEN Rat(a[1] * b[2] + b[1] * a[2], a[2] * b[2])
    ELSE IF IsNaN(a) \/ IsNaN(b) THEN NaN
    ELSE IF IsFinite(a) THEN b
    ELSE IF IsFinite(b) THEN a
    ELSE IF a = b THEN a ELSE NaN

\* a * b
FMul(a, b) ==
    IF IsFinite(a) /\ IsFinite(b) THEN Rat(a[1] * b[1], a[2] * b[2])
    ELSE IF IsNaN(a) \/ IsNaN(b) \/ a[1] = 0 \/ b[1] = 0 THEN NaN
    ELSE <<Sign(a[1]) * Sign(b[1]), 0>>

\* a / b : 0/0 is nan and x/0 is +-inf (numpy warns, it does not raise)
FDiv(a, b) ==
    IF IsNaN(a) \/ IsNaN(b) THEN NaN
    ELSE IF IsFinite(a) /\ IsFinite(b) THEN
        IF b[1] = 0 THEN <<Sign(a[1]), 0>>
        ELSE Rat(Sign(b[1]) * a[1] * b[2], a[2] * Abs(b[1]))
    ELSE IF IsFinite(b) THEN <<a[1] * (IF b[1] < 0 THEN -1 ELSE 1), 0>>
    ELSE IF IsFinite(a) THEN Zero
    ELSE NaN

\* a < b ; every comparison with nan is false
FLess(a, b) ==
    /\ ~IsNaN(a)
    /\ ~IsNaN(b)
    /\ IF IsFinite(a) /\ IsFinite(b) THEN a[1] * b[2] < b[1] * a[2]
       ELSE IF IsFinite(a) THEN b[1] > 0
       ELSE IF IsFinite(b) THEN a[1] < 0
       ELSE a[1] < b[1]

\* sum of a float vector, left to right
RECURSIVE FSum(_)
FSum(s) == IF s = <<>> THEN Zero ELSE FAdd(FSum(SubSeq(s, 1, Len(s) - 1)), s[Len(s)])

\* np.zeros(n)
Zeros(n) == [j \in 1..n |-> Zero]

\* np.ones(n)
Ones(n) == [j \in 1..n |-> One]

-----------------------------------------------------------------------------
(* Collaborators in sklearn/neighbors/base.py *)

Range(s) == {s[j] : j \in 1..Len(s)}

Min(S) == CHOOSE m \in S : \A o \in S : m <= o

Max(S) == CHOOSE m \in S : \A o \in S : m >= o

RECURSIVE SortedSeq(_)
SortedSeq(S) == IF S = {} THEN <<>> ELSE <<Min(S)>> \o SortedSeq(S \ {Min(S)})

\* np.unique(y): the distinct labels in increasing order (self._classes)
Unique(y) == SortedSeq(Range(y))

\* np.unique(y, return_inverse=True)[1]: the class index of every sample (self._y)
Inverse(y) ==
    LET cl == Unique(y)
    IN  [i \in 1..Len(y) |-> (CHOOSE c \in 1..Len(cl) : cl[c] = y[i]) - 1]

\* distance from query point x to training sample j of X = [[0], [1], [2], ...]
Dist(x, j) == Abs(x - j)

\* kneighbors for one query point: the k nearest of the n training samples,
\* nearest first; among equidistant samples any choice and order
KNeighborsRow(x, k, n) ==
    {s \in [1..k -> 0..(n - 1)] :
        /\ \A a, b \in 1..k : a < b => s[a] # s[b] /\ Dist(x, s[a]) <= Dist(x, s[b])
        /\ \A j \in 0..(n - 1) : j \notin Range(s) => Dist(x, j) >= Dist(x, s[k])}

\* kneighbors for a batch: every possible neigh_ind
KNeighbors(Xq, k, n) ==
    {ind \in [1..Len(Xq) -> UNION {KNeighborsRow(Xq[r], k, n) : r \in 1..Len(Xq)}] :
        \A r \in 1..Len(Xq) : ind[r] \in KNeighborsRow(Xq[r], k, n)}

RECURSIVE Within(_, _, _)
\* the samples j..n-1 within DefaultRadius of x, in increasing index order
Within(x, j, n) ==
    IF j >= n THEN <<>>
    ELSE (IF Dist(x, j) <= DefaultRadius THEN <<j>> ELSE <<>>) \o Within(x, j + 1, n)

\* radius_neighbors for a batch: neigh_ind
RadiusNeighbors(Xq, n) == [r \in 1..Len(Xq) |-> Within(Xq[r], 0, n)]

\* the distances that go with neigh_ind
DistancesOf(Xq, ind) == [r \in 1..Len(Xq) |-> [a \in 1..Len(ind[r]) |-> Dist(Xq[r], ind[r][a])]]

\* a user-supplied weight callable: 1 for an exact match, 0 otherwise
ExactMatch(drow) == [a \in 1..Len(drow) |-> IF drow[a] = 0 THEN One ELSE Zero]

\* inverse-distance weights of one row; a row holding a zero distance gets the
\* indicator of its zero distances
InverseDistance(drow) ==
    IF \E a \in 1..Len(drow) : drow[a] = 0 THEN ExactMatch(drow)
    ELSE [a \in 1..Len(drow) |-> Rat(1, drow[a])]

\* _get_weights(dist, weights); None is <<>>
GetWeights(dist, w) ==
    IF w = "uniform" THEN <<>>
    ELSE IF w = "distance" THEN [r \in 1..Len(dist) |-> InverseDistance(dist[r])]
    ELSE [r \in 1..Len(dist) |-> ExactMatch(dist[r])]

\* number of occurrences of v in s
RECURSIVE Count(_, _)
Count(s, v) ==
    IF s = <<>> THEN 0
    ELSE Count(SubSeq(s, 1, Len(s) - 1), v) + (IF s[Len(s)] = v THEN 1 ELSE 0)

\* a bug of the default prior: the counts divided by len(y) as integers
GetClassPriorIntDiv(y, cp) ==
    LET C == Max(Range(y)) + 1
    IN  IF cp.kind = "default" THEN [c \in 1..C |-> FInt(Count(y, c - 1) \div Len(y))]
        ELSE IF cp.kind = "flat" THEN [c \in 1..C |-> Rat(1, C)]
        ELSE cp.vec

\* _get_class_prior(y, class_prior)
GetClassPrior(y, cp) ==
    LET C == Max(Range(y)) + 1
    IN  IF cp.kind = "default" THEN [c \in 1..C |-> Rat(Count(y, c - 1), Len(y))]
        ELSE IF cp.kind = "flat" THEN [c \in 1..C |-> Rat(1, C)]
        ELSE cp.vec

-----------------------------------------------------------------------------
(* The numerical steps of classification.py *)

\* the number of classes, self._classes.size
NumClasses(cl) == Len(cl)

\* one pass of the loop at lines 186-187 and the passes after it:
\* probabilities[all_rows, idx] += weights[:, i], for column i and the later ones
RECURSIVE KnnVoteLoop(_, _, _, _)
KnnVoteLoop(P, pred, w, i) ==
    IF i > Len(pred[1]) THEN P
    ELSE KnnVoteLoop([r \in 1..Len(P) |->
                         [c \in 1..Len(P[r]) |->
                             IF pred[r][i] = c - 1 THEN FAdd(P[r][c], w[r][i])
                             ELSE P[r][c]]],
                     pred, w, i + 1)

\* a bug of the aggregation: probabilities[rows, pred_indices] += weights in one
\* vectorised statement, where a class index occurring more than once in a row
\* is incremented only once, by the weight of its last occurrence
KnnVotesCoalesced(pred, w, C) ==
    [r \in 1..Len(pred) |->
        [c \in 1..C |->
            IF \E a \in 1..Len(pred[r]) : pred[r][a] = c - 1
            THEN w[r][Max({a \in 1..Len(pred[r]) : pred[r][a] = c - 1})]
            ELSE Zero]]

\* lines 181-187: the zero matrix, then the loop over the neighbour columns
KnnVotes(pred, w, C) == KnnVoteLoop([r \in 1..Len(pred) |-> Zeros(C)], pred, w, 1)

\* sum of the weights wrow[a] over the positions a with labels[a] = v
RECURSIVE WeightedCount(_, _, _)
WeightedCount(labels, wrow, v) ==
    IF labels = <<>> THEN Zero
    ELSE LET m == Len(labels)
             rest == WeightedCount(SubSeq(labels, 1, m - 1), SubSeq(wrow, 1, m - 1), v)
         IN  IF labels[m] = v THEN FAdd(rest, wrow[m]) ELSE rest

\* np.bincount(pi, weights[i]): one slot per value 0..max(pi)
Bincount(labels, wrow) ==
    [j \in 1..(Max(Range(labels)) + 1) |-> WeightedCount(labels, wrow, j - 1)]

\* lines 352-366: rows without neighbours are skipped and stay zero; the others
\* get their bincount padded with zeros to the number of classes
RadiusVotes(pred, w, C) ==
    [r \in 1..Len(pred) |->
        IF Len(pred[r]) < 1 THEN Zeros(C)
        ELSE LET unpadded_probs == Bincount(pred[r], w[r])
             IN  unpadded_probs \o Zeros(C - Len(unpadded_probs))]

\* np.bincount(self._y)
ClassCount(y) == [c \in 1..(Max(Range(y)) + 1) |-> Count(y, c - 1)]

\* a bug of the adjustment: the class prior is left out
AdjustNoPrior(P, y, cp) ==
    [r \in 1..Len(P) |->
        [c \in 1..Len(P[r]) |-> FDiv(P[r][c], FInt(ClassCount(y)[c]))]]

\* a bug of the adjustment: the division by the class count is left out
AdjustNoCount(P, y, cp) ==
    [r \in 1..Len(P) |->
        [c \in 1..Len(P[r]) |-> FMul(P[r][c], GetClassPrior(y, cp)[c])]]

\* lines 191-193 / 370-372: (probabilities / class_count) * class_prior
Adjust(P, y, cp) ==
    LET class_count == ClassCount(y)
        prior == GetClassPrior(y, cp)
    IN  [r \in 1..Len(P) |->
            [c \in 1..Len(P[r]) |-> FMul(FDiv(P[r][c], FInt(class_count[c])), prior[c])]]

RECURSIVE TotalSum(_)
\* probabilities.sum(): the sum over the whole matrix
TotalSum(P) == IF P = <<>> THEN Zero ELSE FAdd(TotalSum(SubSeq(P, 1, Len(P) - 1)), FSum(P[Len(P)]))

\* a bug of the normalisation: the divisor is the sum of the whole matrix
NormalizeByTotal(P) ==
    [r \in 1..Len(P) |-> [c \in 1..Len(P[r]) |-> FDiv(P[r][c], TotalSum(P))]]

\* a bug of the normalisation: a row summing to zero is turned into zeros
NormalizeMasked(P) ==
    [r \in 1..Len(P) |->
        [c \in 1..Len(P[r]) |->
            IF FSum(P[r]) = Zero THEN Zero ELSE FDiv(P[r][c], FSum(P[r]))]]

\* line 196 / 375: (probabilities.T / probabilities.sum(axis=1)).T
Normalize(P) ==
    [r \in 1..Len(P) |-> [c \in 1..Len(P[r]) |-> FDiv(P[r][c], FSum(P[r]))]]

\* a bug of the choice: the last position holding the maximum
ArgmaxLast(row) ==
    IF \E c \in 1..Len(row) : IsNaN(row[c])
    THEN Min({c \in 1..Len(row) : IsNaN(row[c])}) - 1
    ELSE Max({c \in 1..Len(row) : \A d \in 1..Len(row) : ~FLess(row[c], row[d])}) - 1

\* ndarray.argmax of one row: the first nan if there is one, else the first
\* position holding the maximum
Argmax(row) ==
    IF \E c \in 1..Len(row) : IsNaN(row[c])
    THEN Min({c \in 1..Len(row) : IsNaN(row[c])}) - 1
    ELSE Min({c \in 1..Len(row) : \A d \in 1..Len(row) : ~FLess(row[c], row[d])}) - 1

\* line 155 / 379: self._classes[probabilities.argmax(axis=1)]
ClassOfArgmax(P, cl) == [r \in 1..Len(P) |-> cl[Argmax(P[r]) + 1]]

\* `if self.outlier_label:` -- the truth value of None and of 0 is False
Truthy(ol) == ol # <<>> /\ ol[1] # 0

\* lines 331-335: the rows i..n-1 (0-based) that have no neighbour
RECURSIVE EmptyRows(_, _)
EmptyRows(pred, i) ==
    IF i >= Len(pred) THEN <<>>
    ELSE (IF Len(pred[i + 1]) < 1 THEN <<i>> ELSE <<>>) \o EmptyRows(pred, i + 1)

\* a bug of the check: only the first row is looked at
HasEmptyRowFirstOnly(pred) == Len(pred[1]) < 1

\* lines 337-339: some row has no neighbour
HasEmptyRow(pred) == \E r \in 1..Len(pred) : Len(pred[r]) < 1

\* line 381: preds[outliers] = self.outlier_label
FillOutliers(p, out, ol) ==
    [r \in 1..Len(p) |-> IF (r - 1) \in Range(out) THEN ol[1] ELSE p[r]]

-----------------------------------------------------------------------------
(* Inputs *)

\* the label arrays an estimator is fitted on
TrainSets == (UNION {[1..n -> 0..MaxLabel] : n \in 1..MaxTrain}) \cup {DocY}

\* the query batches: one-dimensional points on and beyond the training samples
Batches(n) == UNION {[1..m -> 0..(n + DefaultRadius)] : m \in 1..MaxRows}

\* weights: 'uniform', 'distance' or a callable
WeightKinds == {"uniform", "distance", "callable"}

\* entries of a user-defined class prior (0.75 and 0.25 as in the docstring)
PriorValues == {Rat(3, 4), Rat(1, 4)}

\* class_prior: 'default', 'flat' or a list with one entry per class
ClassPriors(C) ==
    {[kind |-> "default", vec |-> <<>>], [kind |-> "flat", vec |-> <<>>]}
    \cup {[kind |-> "explicit", vec |-> v] : v \in [1..C -> PriorValues]}

\* outlier_label: None or an integer
OutlierLabels == {<<>>} \cup {<<L>> : L \in -1..1}

-----------------------------------------------------------------------------
(* Construction and fit *)

Init ==
    \E kind \in {"knn", "radius"}, y \in TrainSets :
        /\ clf = kind
        /\ classes_ = Unique(y)
        /\ y_ = Inverse(y)
        /\ n_neighbors \in (IF kind = "knn" THEN 1..Len(y) ELSE {0})
        /\ weights_cfg \in WeightKinds
        /\ class_prior \in ClassPriors(Len(Unique(y)))
        /\ outlier_label \in (IF kind = "radius" THEN OutlierLabels ELSE {<<>>})
        /\ pc = "fitted"
        /\ X = <<>>
        /\ neigh_dist = <<>>
        /\ neigh_ind = <<>>
        /\ pred_labels = <<>>
        /\ outliers = <<>>
        /\ weights = <<>>
        /\ votes = <<>>
        /\ adjusted = <<>>
        /\ probabilities = <<>>
        /\ preds = <<>>

config == <<clf, y_, classes_, n_neighbors, weights_cfg, class_prior, outlier_label>>

-----------------------------------------------------------------------------
(* KNeighborsClassifier *)

\* self._y[neigh_ind]
LabelsOf(y, ind) == [r \in 1..Len(ind) |-> [a \in 1..Len(ind[r]) |-> y[ind[r][a] + 1]]]

\* lines 176-179: _get_weights, and np.ones_like(pred_indices) when it gives None
WeightsOrOnes(dist, w) ==
    IF GetWeights(dist, w) = <<>> THEN [r \in 1..Len(dist) |-> Ones(Len(dist[r]))]
    ELSE GetWeights(dist, w)

\* predict_proba, lines 171-197, on the batch Xq with the search result ind
PredictProbaBody(Xq, ind) ==
    /\ X' = Xq
    /\ neigh_ind' = ind
    /\ neigh_dist' = DistancesOf(Xq, ind)
    /\ pred_labels' = LabelsOf(y_, ind)
    /\ weights' = WeightsOrOnes(neigh_dist', weights_cfg)
    /\ votes' = KnnVotes(pred_labels', weights', NumClasses(classes_))
    /\ adjusted' = Adjust(votes', y_, class_prior)
    /\ probabilities' = Normalize(adjusted')

KnnPredictProba ==
    /\ clf = "knn"
    /\ pc = "fitted"
    /\ \E Xq \in Batches(Len(y_)) :
         \E ind \in KNeighbors(Xq, n_neighbors, Len(y_)) : PredictProbaBody(Xq, ind)
    /\ pc' = "proba_returned"
    /\ UNCHANGED <<config, outliers, preds>>

\* predict, lines 154-155
KnnPredict ==
    /\ clf = "knn"
    /\ pc = "fitted"
    /\ \E Xq \in Batches(Len(y_)) :
         \E ind \in KNeighbors(Xq, n_neighbors, Len(y_)) : PredictProbaBody(Xq, ind)
    /\ preds' = ClassOfArgmax(probabilities', classes_)
    /\ pc' = "predict_returned"
    /\ UNCHANGED <<config, outliers>>

-----------------------------------------------------------------------------
(* RadiusNeighborsClassifier.predict, one action per block of the method *)

\* lines 324-327: the neighbour query
RadiusQuery ==
    /\ clf = "radius"
    /\ pc = "fitted"
    /\ \E Xq \in Batches(Len(y_)) :
         /\ X' = Xq
         /\ neigh_ind' = RadiusNeighbors(Xq, Len(y_))
         /\ neigh_dist' = DistancesOf(Xq, neigh_ind')
         /\ pred_labels' = LabelsOf(y_, neigh_ind')
    /\ pc' = "check"
    /\ UNCHANGED <<config, outliers, weights, votes, adjusted, probabilities, preds>>

\* lines 329-344: collect the outliers, or raise ValueError
RadiusCheck ==
    /\ pc = "check"
    /\ IF Truthy(outlier_label)
       THEN /\ outliers' = EmptyRows(pred_labels, 0)
            /\ pc' = "weights"
       ELSE /\ outliers' = outliers
            /\ pc' = IF HasEmptyRow(pred_labels) THEN "raised" ELSE "weights"
    /\ UNCHANGED <<config, X, neigh_dist, neigh_ind, pred_labels, weights, votes,
                   adjusted, probabilities, preds>>

\* lines 346-350: _get_weights, and a row of ones per query when it gives None
RadiusWeights ==
    /\ pc = "weights"
    /\ weights' = WeightsOrOnes(neigh_dist, weights_cfg)
    /\ pc' = "vote"
    /\ UNCHANGED <<config, X, neigh_dist, neigh_ind, pred_labels, outliers, votes,
                   adjusted, probabilities, preds>>

\* lines 352-366
RadiusVote ==
    /\ pc = "vote"
    /\ votes' = RadiusVotes(pred_labels, weights, NumClasses(classes_))
    /\ pc' = "adjust"
    /\ UNCHANGED <<config, X, neigh_dist, neigh_ind, pred_labels, outliers, weights,
                   adjusted, probabilities, preds>>

\* lines 370-372
RadiusAdjust ==
    /\ pc = "adjust"
    /\ adjusted' = Adjust(votes, y_, class_prior)
    /\ pc' = "normalize"
    /\ UNCHANGED <<config, X, neigh_dist, neigh_ind, pred_labels, outliers, weights,
                   votes, probabilities, preds>>

\* line 375
RadiusNormalize ==
    /\ pc = "normalize"
    /\ probabilities' = Normalize(adjusted)
    /\ pc' = "argmax"
    /\ UNCHANGED <<config, X, neigh_dist, neigh_ind, pred_labels, outliers, weights,
                   votes, adjusted, preds>>

\* line 379
RadiusArgmax ==
    /\ pc = "argmax"
    /\ preds' = ClassOfArgmax(probabilities, classes_)
    /\ pc' = "fill"
    /\ UNCHANGED <<config, X, neigh_dist, neigh_ind, pred_labels, outliers, weights,
                   votes, adjusted, probabilities>>

\* lines 380-383
RadiusFill ==
    /\ pc = "fill"
    /\ preds' = IF Truthy(outlier_label) THEN FillOutliers(preds, outliers, outlier_label)
                ELSE preds
    /\ pc' = "returned"
    /\ UNCHANGED <<config, X, neigh_dist, neigh_ind, pred_labels, outliers, weights,
                   votes, adjusted, probabilities>>

Next ==
    \/ KnnPredictProba
    \/ KnnPredict
    \/ RadiusQuery
    \/ RadiusCheck
    \/ RadiusWeights
    \/ RadiusVote
    \/ RadiusAdjust
    \/ RadiusNormalize
    \/ RadiusArgmax
    \/ RadiusFill

Spec == Init /\ [][Next]_vars

-----------------------------------------------------------------------------
(* Vocabulary of the properties *)

Rows == 1..Len(X)

Cols == 1..Len(classes_)

\* predict_proba or predict of the k-NN estimator has returned
KnnReturned == clf = "knn" /\ pc \in {"proba_returned", "predict_returned"}

\* the radius estimator's predict is past the check of lines 329-344
RadiusPastCheck == clf = "radius" /\ pc \notin {"fitted", "check"}

\* the radius estimator's predict is past the normalisation of line 375
RadiusPastNormalize == clf = "radius" /\ pc \in {"argmax", "fill", "returned"}

\* row r of the query has no neighbour
IsOutlierRow(r) == Len(pred_labels[r]) = 0

\* the positions of row r's neighbours that carry class index c - 1
NeighboursOf(r, c) == {a \in 1..Len(pred_labels[r]) : pred_labels[r][a] = c - 1}

RECURSIVE SumOver(_, _)
\* the sum of wrow over the positions in S
SumOver(S, wrow) ==
    IF S = {} THEN Zero
    ELSE LET a == CHOOSE b \in S : TRUE IN FAdd(wrow[a], SumOver(S \ {a}, wrow))

\* the number of training samples of class index c - 1
TrainCount(c) == Cardinality({i \in 1..Len(y_) : y_[i] = c - 1})

\* every class has the same number of training samples
Balanced == \A c, d \in Cols : TrainCount(c) = TrainCount(d)

\* row r is a probability distribution
IsDistribution(r) ==
    /\ FSum(probabilities[r]) = One
    /\ \A c \in Cols : /\ IsFinite(probabilities[r][c])
                       /\ ~FLess(probabilities[r][c], Zero)
                       /\ ~FLess(One, probabilities[r][c])

\* the labels of the classes holding the largest probability of row r
BestLabels(r) ==
    {classes_[c] : c \in {e \in Cols : \A d \in Cols :
                              ~FLess(probabilities[r][e], probabilities[r][d])}}

-----------------------------------------------------------------------------
(* C1 *)

\* C1 (as claimed): whenever an outlier label is configured, be it any integer,
\* predict does not raise, and in the returned labels every row without
\* neighbours carries the outlier label.
C1_OutlierRowsGetTheLabel ==
    (clf = "radius" /\ outlier_label # <<>>) =>
        /\ pc # "raised"
        /\ pc = "returned" =>
              \A r \in Rows : IsOutlierRow(r) => preds[r] = outlier_label[1]

-----------------------------------------------------------------------------
(* C2 *)

\* C2: with no outlier label, a batch holding a row without neighbours ends in
\* the ValueError right after the check: no weight, vote, probability or label
\* has been computed, and the call takes no further step.
C2_NoLabelAborts ==
    (RadiusPastCheck /\ outlier_label = <<>> /\ \E r \in Rows : IsOutlierRow(r)) =>
        /\ pc = "raised"
        /\ weights = <<>>
        /\ votes = <<>>
        /\ adjusted = <<>>
        /\ probabilities = <<>>
        /\ preds = <<>>
        /\ ~ENABLED Next

\* a batch of two rows, the second without neighbours, has raised
C2_Witness ==
    /\ clf = "radius"
    /\ outlier_label = <<>>
    /\ pc = "raised"
    /\ Len(X) = 2
    /\ ~IsOutlierRow(1)
    /\ IsOutlierRow(2)

-----------------------------------------------------------------------------
(* C3 *)

\* C3 (as claimed): every row of the matrix predict_proba returns sums to 1 with
\* all entries in [0,1], whatever the weights and the class prior.
C3_EveryRowIsADistribution ==
    KnnReturned => \A r \in Rows : IsDistribution(r)

\* C3 (amended): every row of the matrix predict_proba returns whose weighted
\* votes do not sum to zero sums to 1 with all entries in [0,1].
C3_VotedRowsAreDistributions ==
    KnnReturned => \A r \in Rows : FSum(votes[r]) # Zero => IsDistribution(r)

\* inverse-distance weights and a user-defined prior gave a row with an entry
\* strictly between 0 and 1
C3_Witness ==
    /\ KnnReturned
    /\ weights_cfg = "distance"
    /\ class_prior.kind = "explicit"
    /\ \E r \in Rows : /\ FSum(votes[r]) # Zero
                       /\ \E a \in 1..Len(weights[r]) : weights[r][a] = Rat(1, 2)
                       /\ \E c \in Cols : /\ FLess(Zero, probabilities[r][c])
                                          /\ FLess(probabilities[r][c], One)

-----------------------------------------------------------------------------
(* C4 *)

\* C4: in the labels predict computes, of either estimator, a row with finite
\* probabilities gets the smallest label among the classes that hold the
\* largest probability of the row.
C4_TieGoesToSmallestLabel ==
    (\/ clf = "knn" /\ pc = "predict_returned"
     \/ clf = "radius" /\ pc \in {"fill", "returned"}) =>
        \A r \in Rows :
            (~IsOutlierRow(r) /\ \A c \in Cols : IsFinite(probabilities[r][c])) =>
                preds[r] = Min(BestLabels(r))

\* the radius estimator returned label 0 for a row whose two classes tie
C4_Witness ==
    /\ clf = "radius"
    /\ pc = "returned"
    /\ classes_ = <<0, 1>>
    /\ \E r \in Rows : /\ probabilities[r] = <<Rat(1, 2), Rat(1, 2)>>
                       /\ BestLabels(r) = {0, 1}
                       /\ preds[r] = 0

-----------------------------------------------------------------------------
(* C5 *)

\* votes[c] / classCount[c] * prior[c] of row r, as one fraction
AdjustedVote(r, c) ==
    LET v == votes[r][c]
        p == GetClassPrior(y_, class_prior)[c]
    IN  Rat(v[1] * p[1], v[2] * p[2] * TrainCount(c))

\* C5: for every row whose votes do not sum to zero, the probability of class c
\* times the sum of the adjusted votes is the adjusted vote of c, where
\* adjusted[c] = votes[c] / classCount[c] * prior[c]; with the training labels
\* [0,0,1,1] and the prior [0.75, 0.25], votes (1, 2) give (0.6, 0.4) and votes
\* (2, 1) give (6/7, 1/7).
C5_PosteriorFormula ==
    probabilities # <<>> =>
        \A r \in Rows :
            FSum(votes[r]) # Zero =>
                /\ \A c \in Cols :
                      FMul(probabilities[r][c],
                           FSum([d \in Cols |-> AdjustedVote(r, d)])) = AdjustedVote(r, c)
                /\ (y_ = DocY /\ class_prior.vec = <<Rat(3, 4), Rat(1, 4)>>) =>
                      /\ votes[r] = <<FInt(1), FInt(2)>> =>
                            probabilities[r] = <<Rat(3, 5), Rat(2, 5)>>
                      /\ votes[r] = <<FInt(2), FInt(1)>> =>
                            probabilities[r] = <<Rat(6, 7), Rat(1, 7)>>

\* the docstring example: three uniform neighbours of the query point 2.0
C5_Witness ==
    /\ clf = "knn"
    /\ pc = "proba_returned"
    /\ y_ = DocY
    /\ n_neighbors = 3
    /\ weights_cfg = "uniform"
    /\ class_prior.vec = <<Rat(3, 4), Rat(1, 4)>>
    /\ X = <<2, 1>>
    /\ votes = << <<FInt(1), FInt(2)>>, <<FInt(2), FInt(1)>> >>
    /\ probabilities = << <<Rat(3, 5), Rat(2, 5)>>, <<Rat(6, 7), Rat(1, 7)>> >>

-----------------------------------------------------------------------------
(* C6 *)

\* C6: with the 'default' prior, every row whose votes do not sum to zero has
\* probability votes[c] / sum(votes) for class c.
C6_DefaultPriorIsNoOp ==
    (probabilities # <<>> /\ class_prior.kind = "default") =>
        \A r \in Rows :
            FSum(votes[r]) # Zero =>
                \A c \in Cols : probabilities[r][c] = FDiv(votes[r][c], FSum(votes[r]))

\* unevenly populated classes, fractional weights, votes for both classes
C6_Witness ==
    /\ KnnReturned
    /\ class_prior.kind = "default"
    /\ weights_cfg = "distance"
    /\ Len(classes_) = 2
    /\ TrainCount(1) # TrainCount(2)
    /\ \E r \in Rows : /\ votes[r] = <<Rat(1, 2), One>>
                       /\ probabilities[r] = <<Rat(1, 3), Rat(2, 3)>>

-----------------------------------------------------------------------------
(* C7 *)

\* the labels the call yields from its votes when the class prior is cp
LabelsUnder(cp) ==
    LET p == ClassOfArgmax(Normalize(Adjust(votes, y_, cp)), classes_)
    IN  IF clf = "radius" /\ pc = "returned" /\ Truthy(outlier_label)
        THEN FillOutliers(p, outliers, outlier_label)
        ELSE p

\* C7: when all classes have the same number of training samples, the labels
\* predict computes with the 'flat' prior are those it computes with the
\* 'default' prior from the same neighbours and weights.
C7_FlatEqualsDefaultWhenBalanced ==
    (/\ \/ clf = "knn" /\ pc = "predict_returned"
        \/ clf = "radius" /\ pc \in {"fill", "returned"}
     /\ class_prior.kind = "flat"
     /\ Balanced) =>
        preds = LabelsUnder([kind |-> "default", vec |-> <<>>])

\* a balanced two-class fit, 'flat' prior, and a row decided for class 1
C7_Witness ==
    /\ clf = "knn"
    /\ pc = "predict_returned"
    /\ class_prior.kind = "flat"
    /\ Len(classes_) = 2
    /\ Balanced
    /\ \E r \in Rows : /\ FLess(votes[r][1], votes[r][2])
                       /\ FLess(Zero, votes[r][1])
                       /\ preds[r] = 1

-----------------------------------------------------------------------------
(* C8 *)

\* C8 (as claimed): with an outlier label configured, a row without neighbours
\* never goes through the adjustment and the division by the row sum, so that
\* no 0/0 is evaluated for it: past line 375 its probabilities hold no nan.
C8_OutlierRowsSkipNormalization ==
    (RadiusPastNormalize /\ outlier_label # <<>>) =>
        \A r \in Rows : IsOutlierRow(r) => \A c \in Cols : ~IsNaN(probabilities[r][c])

-----------------------------------------------------------------------------
(* C9 *)

\* C9: every vote vector has one entry per class, and the entry of class c is
\* the sum of the weights of the neighbours labelled c, each occurrence
\* counted; with uniform weights it is the number of such neighbours, and a
\* row without neighbours has the all-zero vector.
C9_VotesAreWeightSums ==
    votes # <<>> =>
        \A r \in Rows :
            /\ Len(votes[r]) = Len(classes_)
            /\ \A c \in Cols :
                  /\ votes[r][c] = SumOver(NeighboursOf(r, c), weights[r])
                  /\ weights_cfg = "uniform" =>
                        votes[r][c] = FInt(Cardinality(NeighboursOf(r, c)))
            /\ IsOutlierRow(r) => votes[r] = Zeros(Len(classes_))

\* the k-NN estimator summed the weights 1 and 1/2 of two neighbours of one class
C9_Witness ==
    /\ clf = "knn"
    /\ weights_cfg = "distance"
    /\ votes # <<>>
    /\ \E r \in Rows : \E c \in Cols :
          /\ Cardinality(NeighboursOf(r, c)) = 2
          /\ {weights[r][a] : a \in NeighboursOf(r, c)} = {One, Rat(1, 2)}
          /\ votes[r][c] = Rat(3, 2)

-----------------------------------------------------------------------------
(* C10 *)

\* row r's neighbours all have weight exactly 0
AllWeightsZero(r) == \A a \in 1..Len(weights[r]) : weights[r][a] = Zero

\* the probabilities predict_proba gives row r when it is the whole batch
AloneProbabilities(r) ==
    Normalize(Adjust(KnnVotes(<<pred_labels[r]>>, <<weights[r]>>, Len(classes_)),
                     y_, class_prior))[1]

\* C10: predict_proba returns also when a row has only zero weights; that row
\* is nan in every entry, and every other row is finite and equal to what the
\* row would get as a batch of its own.
C10_ZeroWeightRowIsNaN ==
    (clf = "knn" /\ pc # "fitted") =>
        /\ KnnReturned
        /\ \A r \in Rows :
              IF AllWeightsZero(r)
              THEN \A c \in Cols : IsNaN(probabilities[r][c])
              ELSE /\ \A c \in Cols : IsFinite(probabilities[r][c])
                   /\ probabilities[r] = AloneProbabilities(r)

\* a callable gave row 1 only zero weights and row 2 a non-zero weight
C10_Witness ==
    /\ clf = "knn"
    /\ pc = "proba_returned"
    /\ weights_cfg = "callable"
    /\ Len(X) = 2
    /\ AllWeightsZero(1)
    /\ \A c \in Cols : IsNaN(probabilities[1][c])
    /\ ~AllWeightsZero(2)
    /\ IsDistribution(2)

=============================================================================
